---- MODULE Spec2Model ----
(***************************************************************************)
(* A model of the mentoring scheduler (schedule.py): the geocoding cache,  *)
(* the parsing and rendering of weekly time periods, the fits_in test and  *)
(* the matching of teams against mentors.                                  *)
(*                                                                         *)
(* Text is a sequence of one-character strings.  A time of day (the        *)
(* datetime strptime('%H:%M') builds, always on 1900-01-01) is the number  *)
(* of minutes since midnight; a timedelta is a number of minutes.          *)
(***************************************************************************)
EXTENDS Integers, Sequences, FiniteSets, TLC

VARIABLES
    my_postcode,   \* args.postcode, handed to every Team
    cache,         \* the GEOCODE table of the pickled '.cache' file: query -> location
    calls,         \* query -> number of geolocator.geocode invocations so far
    teams,         \* the Team objects built so far, in order
    mentors,       \* the Mentor objects built so far, in order
    result,        \* outcome of the last constructor or matching call
    fit_self,      \* fits_in: the period asked about
    fit_other,     \* fits_in: the period it should fit into
    fit_buffer,    \* travel buffer of fit_self (tolerance variant only)
    fit_result,    \* fits_in(fit_self, fit_other), once applied
    fit_tol,       \* tolerance -> result of the tolerance variant, once applied
    p_string,      \* text handed to TimePeriod(...)
    p_period,      \* the TimePeriod built from p_string
    p_text,        \* str(p_period)
    p_again        \* TimePeriod(p_text)

main_vars == <<my_postcode, cache, calls, teams, mentors, result>>
fit_vars == <<fit_self, fit_other, fit_buffer, fit_result, fit_tol>>
parse_vars == <<p_string, p_period, p_text, p_again>>
vars == <<main_vars, fit_vars, parse_vars>>

\* Python's None, "not computed yet", and a raised exception, as records (so that
\* each compares with any object); the name of "no exception" in a result.
None == [none |-> TRUE]
Unset == [unset |-> TRUE]
Raise(exception) == [raised |-> exception]
ValueError == Raise("ValueError")
IndexError == Raise("IndexError")
NoError == "no"
IsRaise(x) == "raised" \in DOMAIN x

----------------------------------------------------------------------------
(* Bounds of the model *)

MaxTeams == 2        \* Team objects built in one run
MaxMentors == 2      \* Mentor objects built in one run
MaxPrefixLen == 3    \* length of the weekday prefixes tried by the parser
MaxSlots == 3        \* the fits_in inputs use 10:00 and MaxSlots steps of 15 minutes after it
MaxDay == 2          \* the fits_in inputs use weekdays 1..MaxDay

----------------------------------------------------------------------------
(* Program constants *)

DAYS_OF_THE_WEEK ==
    << [name |-> <<"M","o","n","d","a","y">>, number |-> 1],
       [name |-> <<"T","u","e","s","d","a","y">>, number |-> 2],
       [name |-> <<"W","e","d","n","e","s","d","a","y">>, number |-> 3],
       [name |-> <<"T","h","u","r","s","d","a","y">>, number |-> 4],
       [name |-> <<"F","r","i","d","a","y">>, number |-> 5],
       [name |-> <<"S","a","t","u","r","d","a","y">>, number |-> 6],
       [name |-> <<"S","u","n","d","a","y">>, number |-> 7] >>

MAX_SPEED == 50

----------------------------------------------------------------------------
(* Text helpers: str.split, str.startswith, slicing *)

Digits == {"0","1","2","3","4","5","6","7","8","9"}

DigitValue(c) ==
    CASE c = "0" -> 0 [] c = "1" -> 1 [] c = "2" -> 2 [] c = "3" -> 3
      [] c = "4" -> 4 [] c = "5" -> 5 [] c = "6" -> 6 [] c = "7" -> 7
      [] c = "8" -> 8 [] c = "9" -> 9

DigitChar(n) ==
    CASE n = 0 -> "0" [] n = 1 -> "1" [] n = 2 -> "2" [] n = 3 -> "3"
      [] n = 4 -> "4" [] n = 5 -> "5" [] n = 6 -> "6" [] n = 7 -> "7"
      [] n = 8 -> "8" [] n = 9 -> "9"

\* s[:n]
Take(s, n) == SubSeq(s, 1, IF n < Len(s) THEN n ELSE Len(s))

\* day.startswith(s)
StartsWith(day, s) == Len(s) <= Len(day) /\ SubSeq(day, 1, Len(s)) = s

\* s.split(sep): the pieces between the occurrences of sep, empty pieces kept
RECURSIVE Split(_, _)
Split(s, sep) ==
    IF \A i \in 1..Len(s) : s[i] # sep
    THEN <<s>>
    ELSE LET i == CHOOSE k \in 1..Len(s) :
                      s[k] = sep /\ \A j \in 1..(k-1) : s[j] # sep
         IN <<SubSeq(s, 1, i-1)>> \o Split(SubSeq(s, i+1, Len(s)), sep)

----------------------------------------------------------------------------
(* datetime.strptime(text, '%H:%M') and datetime.strftime('%H:%M') *)

\* A field of one or two decimal digits
IsField(f) == Len(f) \in {1, 2} /\ \A i \in 1..Len(f) : f[i] \in Digits

FieldValue(f) ==
    IF Len(f) = 1 THEN DigitValue(f[1])
    ELSE 10 * DigitValue(f[1]) + DigitValue(f[2])

\* The time of day [minutes |-> n], or ValueError when the text is not H:M
\* with H in 0..23 and M in 0..59 (one or two digits each).
strptime(text) ==
    LET parts == Split(text, ":") IN
    IF /\ Len(parts) = 2
       /\ IsField(parts[1]) /\ IsField(parts[2])
       /\ FieldValue(parts[1]) <= 23
       /\ FieldValue(parts[2]) <= 59
    THEN [minutes |-> 60 * FieldValue(parts[1]) + FieldValue(parts[2])]
    ELSE ValueError

\* Two digits for the hour, a colon, two digits for the minute
strftime(t) ==
    LET h == t \div 60
        m == t % 60
    IN << DigitChar(h \div 10), DigitChar(h % 10), ":",
          DigitChar(m \div 10), DigitChar(m % 10) >>

----------------------------------------------------------------------------
(* class TimePeriod *)

\* The first weekday, in table order, whose name starts with the text
RECURSIVE ParseDayFrom(_, _)
ParseDayFrom(string, k) ==
    IF k > Len(DAYS_OF_THE_WEEK) THEN ValueError
    ELSE IF StartsWith(DAYS_OF_THE_WEEK[k].name, string)
         THEN [number |-> DAYS_OF_THE_WEEK[k].number,
               day |-> DAYS_OF_THE_WEEK[k].name]
         ELSE ParseDayFrom(string, k + 1)

parse_day(string) == ParseDayFrom(string, 1)

\* TimePeriod(string): the object, or the exception its constructor raises
TimePeriod(string) ==
    LET parts == Split(string, " ")
        d == parse_day(parts[1])
    IN  IF IsRaise(d) THEN d
        ELSE IF Len(parts) < 2 THEN IndexError
        ELSE LET times == Split(parts[2], "-")
                 a == strptime(times[1])
             IN  IF IsRaise(a) THEN a
                 ELSE IF Len(times) < 2 THEN IndexError
                 ELSE LET b == strptime(times[2]) IN
                      IF IsRaise(b) THEN b
                      ELSE [day |-> d.number, day_string |-> d.day,
                            start_time |-> a.minutes, end_time |-> b.minutes]

IsPeriod(p) == "day" \in DOMAIN p

\* __str__ keeping one letter of the weekday instead of three
str_one_letter(p) ==
    Take(p.day_string, 1) \o <<" ">> \o strftime(p.start_time)
        \o <<"-">> \o strftime(p.end_time)

\* TimePeriod.__str__
str(p) ==
    Take(p.day_string, 3) \o <<" ">> \o strftime(p.start_time)
        \o <<"-">> \o strftime(p.end_time)

\* TimePeriod.get_times
get_times(p) == <<p.start_time, p.end_time>>

\* fits_in without the weekday test
fits_in_any_day(self, other_period) ==
    LET mine == get_times(self)
        theirs == get_times(other_period)
    IN  mine[1] > theirs[1] /\ mine[2] < theirs[2]

\* fits_in accepting equal start or end times
fits_in_or_equal(self, other_period) ==
    IF self.day # other_period.day THEN FALSE
    ELSE LET mine == get_times(self)
             theirs == get_times(other_period)
         IN  mine[1] >= theirs[1] /\ mine[2] <= theirs[2]

\* TimePeriod.fits_in
fits_in(self, other_period) ==
    IF self.day # other_period.day THEN FALSE
    ELSE LET mine == get_times(self)
             theirs == get_times(other_period)
         IN  mine[1] > theirs[1] /\ mine[2] < theirs[2]

----------------------------------------------------------------------------
(* The tolerance variant of fits_in (spec 4.1): the period's interval is   *)
(* widened by its travel buffer, then shrunk by the tolerance at both ends, *)
(* the other period's interval is grown by the tolerance, and the first    *)
(* must lie inside the second.                                             *)

effective_interval(p, travel_buffer) ==
    <<p.start_time - travel_buffer, p.end_time + travel_buffer>>

\* The tolerance variant growing the period itself by the tolerance
fits_in_tolerance_grows_self(self, travel_buffer, other_period, tolerance_minutes) ==
    LET mine == effective_interval(self, travel_buffer)
        theirs == effective_interval(other_period, 0)
    IN  /\ self.day = other_period.day
        /\ theirs[1] <= mine[1] - tolerance_minutes
        /\ mine[2] + tolerance_minutes <= theirs[2]

fits_in_tolerance(self, travel_buffer, other_period, tolerance_minutes) ==
    LET mine == effective_interval(self, travel_buffer)
        theirs == effective_interval(other_period, 0)
    IN  /\ self.day = other_period.day
        /\ theirs[1] - tolerance_minutes <= mine[1] + tolerance_minutes
        /\ mine[2] - tolerance_minutes <= theirs[2] + tolerance_minutes

----------------------------------------------------------------------------
(* Specification of fits_in as a function of its two periods *)

FitTimes == {600 + 15 * k : k \in 0..MaxSlots}
FitBuffers == {0, 15}
Tolerances == {0, 10, 20}

FitPeriods ==
    { [day |-> DAYS_OF_THE_WEEK[d].number, day_string |-> DAYS_OF_THE_WEEK[d].name,
       start_time |-> a, end_time |-> b] :
         d \in 1..MaxDay, a \in FitTimes, b \in FitTimes }

MainIdle ==
    /\ my_postcode = ""
    /\ cache = <<>>
    /\ calls = <<>>
    /\ teams = <<>>
    /\ mentors = <<>>
    /\ result = Unset

FitIdle ==
    /\ fit_self = Unset
    /\ fit_other = Unset
    /\ fit_buffer = 0
    /\ fit_result = Unset
    /\ fit_tol = <<>>

ParseIdle ==
    /\ p_string = <<>>
    /\ p_period = Unset
    /\ p_text = Unset
    /\ p_again = Unset

FitInit ==
    /\ fit_self \in FitPeriods
    /\ fit_other \in FitPeriods
    /\ fit_buffer \in FitBuffers
    /\ fit_result = Unset
    /\ fit_tol = [t \in Tolerances |-> Unset]
    /\ MainIdle
    /\ ParseIdle

ApplyFitsIn ==
    /\ fit_result = Unset
    /\ fit_result' = [value |-> fits_in(fit_self, fit_other)]
    /\ UNCHANGED <<fit_self, fit_other, fit_buffer, fit_tol, main_vars, parse_vars>>

ApplyFitsInTolerance(t) ==
    /\ fit_tol[t] = Unset
    /\ fit_tol' = [fit_tol EXCEPT
                     ![t] = [value |-> fits_in_tolerance(fit_self, fit_buffer,
                                                          fit_other, t)]]
    /\ UNCHANGED <<fit_self, fit_other, fit_buffer, fit_result, main_vars, parse_vars>>

FitNext ==
    \/ ApplyFitsIn
    \/ \E t \in Tolerances : ApplyFitsInTolerance(t)

SpecFit == FitInit /\ [][FitNext]_vars

----------------------------------------------------------------------------
(* Specification of TimePeriod(string), str(period) and the second parse *)

DayPrefixes ==
    { Take(DAYS_OF_THE_WEEK[k].name, n) :
          k \in 1..Len(DAYS_OF_THE_WEEK), n \in 0..MaxPrefixLen }
    \cup { <<"X">>, <<"M","o","x">> }

HourTexts == { <<"9">>, <<"0","9">>, <<"2","3">>, <<"2","4">> }
MinuteTexts == { <<"5">>, <<"0","5">>, <<"5","9">>, <<"6","0">> }
ClockTexts == { h \o <<":">> \o m : h \in HourTexts, m \in MinuteTexts }

PeriodStrings ==
    { d \o <<" ">> \o a \o <<"-">> \o b :
          d \in DayPrefixes, a \in ClockTexts, b \in ClockTexts }
    \cup { <<"M","o","n">>, <<"M","o","n"," ","9",":","5">> }

ParseInit ==
    /\ p_string \in PeriodStrings
    /\ p_period = Unset
    /\ p_text = Unset
    /\ p_again = Unset
    /\ MainIdle
    /\ FitIdle

Parse ==
    /\ p_period = Unset
    /\ p_period' = TimePeriod(p_string)
    /\ UNCHANGED <<p_string, p_text, p_again, main_vars, fit_vars>>

Render ==
    /\ IsPeriod(p_period)
    /\ p_text = Unset
    /\ p_text' = [text |-> str(p_period)]
    /\ UNCHANGED <<p_string, p_period, p_again, main_vars, fit_vars>>

Reparse ==
    /\ p_text # Unset
    /\ p_again = Unset
    /\ p_again' = TimePeriod(p_text.text)
    /\ UNCHANGED <<p_string, p_period, p_text, main_vars, fit_vars>>

ParseNext == Parse \/ Render \/ Reparse

SpecParse == ParseInit /\ [][ParseNext]_vars

----------------------------------------------------------------------------
(* Inputs of a run: the command line's postcode and the two YAML documents *)

Mon_10_11 == <<"M","o","n"," ","1","0",":","0","0","-","1","1",":","0","0">>
Tue_10_11 == <<"T","u","e"," ","1","0",":","0","0","-","1","1",":","0","0">>
Mon_9_12 == <<"M","o","n"," ","9",":","0","0","-","1","2",":","0","0">>
Mo_930_12 == <<"M","o"," ","9",":","3","0","-","1","2",":","0","0">>

MyPostcodes == {"SO17", "ZZ99"}
TeamPostcodes == {"BS8", "ZZ99"}
MeetingTimes == { <<>>, <<Tue_10_11, Mon_10_11>> }
FreeTimes == { <<Mon_10_11, Mo_930_12>>, <<Mo_930_12, Mon_9_12>> }

\* TimePeriod(s) for every string of the documents, computed once
InputStrings == {Mon_10_11, Tue_10_11, Mon_9_12, Mo_930_12}
TimePeriodOf == [s \in InputStrings |-> TimePeriod(s)]

----------------------------------------------------------------------------
(* class Geography *)

Postcodes == {"SO17", "BS8", "ZZ99"}

\* Nominatim().geocode(query): a location, or None for a query it cannot place.
\* Places lie on one line; longitude counts kilometres along it.
geolocator_geocode(query) ==
    CASE query = "SO17" -> [latitude |-> 0, longitude |-> 0]
      [] query = "BS8" -> [latitude |-> 0, longitude |-> 30]
      [] OTHER -> None

\* Geography.distance: metres between two (latitude, longitude) pairs
distance(a, b) ==
    LET d == a[2] - b[2] IN 1000 * (IF d < 0 THEN -d ELSE d)

\* Geography.geocode on the cache table c with the invocation counts n:
\* the location returned, the table as saved, the counts afterwards.
geocode(c, n, query) ==
    IF query \in DOMAIN c
    THEN [location |-> c[query], cache |-> c, calls |-> n]
    ELSE LET location == geolocator_geocode(query) IN
         [location |-> location,
          cache |-> IF location # None THEN (query :> location) @@ c ELSE c,
          calls |-> [n EXCEPT ![query] = @ + 1]]

----------------------------------------------------------------------------
(* Results of constructors and matching calls *)

Outcome(op, who, yielded, constructed, warnings, raised) ==
    [op |-> op, who |-> who, yielded |-> yielded, constructed |-> constructed,
     warnings |-> warnings, raised |-> raised]

Matching == {"find_suitable_mentors", "find_suitable_teams"}

----------------------------------------------------------------------------
(* class SuitableMentor *)

\* distance / time as a speed in metres per hour, rounded down (the comparison
\* with a whole number of km/h is the same before and after rounding down)
Speed(metres, minutes) ==
    IF minutes > 0 THEN (metres * 60) \div minutes
    ELSE 0 - ((metres * 60) \div (0 - minutes))

Min(a, b) == IF a < b THEN a ELSE b
Max(a, b) == IF a > b THEN a ELSE b

\* SuitableMentor(mentor, team, meeting_time, free_time): the object, or the
\* exception raised by the divisions of its constructor
SuitableMentor(mentor, team, meeting_time, free_time) ==
    LET meeting == get_times(meeting_time)
        free == get_times(free_time)
        journey_there == meeting[1] - free[1]
        journey_back == free[2] - meeting[2]
        min_journey_time == Min(journey_there, journey_back)
        max_journey_time == Max(journey_there, journey_back)
    IN  IF team.distance = None THEN Raise("TypeError")
        ELSE IF min_journey_time = 0 \/ max_journey_time = 0
             THEN Raise("ZeroDivisionError")
        ELSE LET journey_there_speed == Speed(team.distance.metres, journey_there)
                 journey_back_speed == Speed(team.distance.metres, journey_back)
             IN [mentor |-> mentor.name, team |-> team.tla,
                 meeting_time |-> meeting_time,
                 journey_there |-> journey_there,
                 journey_back |-> journey_back,
                 min_journey_time |-> min_journey_time,
                 max_journey_time |-> max_journey_time,
                 min_journey_speed |-> Min(journey_there_speed, journey_back_speed),
                 max_journey_speed |-> Max(journey_there_speed, journey_back_speed)]

\* The speed test reading the slower of the two journeys
SlowEnough_min_speed(suitable_mentor) ==
    suitable_mentor.min_journey_speed < MAX_SPEED * 1000

\* suitable_mentor.max_journey_speed < MAX_SPEED (km/h)
SlowEnough(suitable_mentor) == suitable_mentor.max_journey_speed < MAX_SPEED * 1000

----------------------------------------------------------------------------
(* class Mentor *)

\* The journeys computed by a SuitableMentor constructor call
Journeys(meeting_time, free_time) ==
    [journey_there |-> meeting_time.start_time - free_time.start_time,
     journey_back |-> free_time.end_time - meeting_time.end_time]

\* Mentor.is_suitable_for from the k-th (free time, meeting time) pair on, free
\* times in the outer loop: what it returns or raises, and the journeys of
\* every SuitableMentor constructor call made on the way
RECURSIVE IsSuitableFrom(_, _, _, _)
IsSuitableFrom(self, team, k, constructed) ==
    LET n == Len(team.meeting_times) IN
    IF k > Len(self.free_times) * n
    THEN [returned |-> None, raised |-> NoError, constructed |-> constructed]
    ELSE LET free_time == self.free_times[((k - 1) \div n) + 1]
             meeting_time == team.meeting_times[((k - 1) % n) + 1]
         IN  IF ~ fits_in(meeting_time, free_time)
             THEN IsSuitableFrom(self, team, k + 1, constructed)
             ELSE LET suitable_mentor ==
                          SuitableMentor(self, team, meeting_time, free_time)
                      made == Append(constructed, Journeys(meeting_time, free_time))
                  IN  IF IsRaise(suitable_mentor)
                      THEN [returned |-> None, raised |-> suitable_mentor.raised,
                            constructed |-> made]
                      ELSE IF SlowEnough(suitable_mentor)
                      THEN [returned |-> suitable_mentor, raised |-> NoError,
                            constructed |-> made]
                      ELSE IsSuitableFrom(self, team, k + 1, made)

is_suitable_for(self, team) == IsSuitableFrom(self, team, 1, <<>>)

\* The generator body shared by both searches, run to its end over the
\* (mentor, team) pairs in order: the objects yielded, the exception that
\* ended it (if any), the constructor calls made.
RECURSIVE Generate(_, _, _)
Generate(pairs, k, acc) ==
    IF k > Len(pairs) THEN acc
    ELSE LET r == is_suitable_for(pairs[k][1], pairs[k][2])
             made == acc.constructed \o r.constructed
         IN  IF r.raised # NoError
             THEN [acc EXCEPT !.raised = r.raised, !.constructed = made]
             ELSE Generate(pairs, k + 1,
                      [acc EXCEPT !.constructed = made,
                                  !.yielded = IF r.returned # None
                                              THEN Append(@, r.returned) ELSE @])

Nothing == [yielded |-> <<>>, raised |-> NoError, constructed |-> <<>>]

\* Mentor.find_suitable_teams, consumed to its end
find_suitable_teams(self, all_teams) ==
    LET wanted == SelectSeq(all_teams, LAMBDA team : ~ team.arranged)
    IN  Generate([k \in 1..Len(wanted) |-> <<self, wanted[k]>>], 1, Nothing)

----------------------------------------------------------------------------
(* class Team *)

\* find_suitable_mentors without the test of the arranged flag
find_suitable_mentors_any_team(self, all_mentors) ==
    Generate([k \in 1..Len(all_mentors) |-> <<all_mentors[k], self>>], 1, Nothing)

\* Team.find_suitable_mentors, consumed to its end
find_suitable_mentors(self, all_mentors) ==
    IF self.arranged THEN Nothing
    ELSE Generate([k \in 1..Len(all_mentors) |-> <<all_mentors[k], self>>], 1, Nothing)

\* Team(tla, my_postcode, arranged, postcode, meeting_times) on the cache
\* table c and the invocation counts n
NewTeamObject(c, n, tla, my, arranged, postcode, meeting_times) ==
    LET periods == [i \in 1..Len(meeting_times) |-> TimePeriodOf[meeting_times[i]]]
        bad == {i \in 1..Len(periods) : IsRaise(periods[i])}
        warn1 == IF ~ arranged /\ periods = <<>>
                 THEN <<"no meeting times">> ELSE <<>>
        there == geocode(c, n, postcode)
        home == geocode(there.cache, there.calls, my)
        base == [tla |-> tla, arranged |-> arranged, postcode |-> postcode,
                 meeting_times |-> periods]
    IN  IF bad # {}
        THEN [team |-> None, cache |-> c, calls |-> n, warnings |-> <<>>,
              raised |-> periods[CHOOSE i \in bad : \A j \in bad : i <= j].raised]
        ELSE IF there.location = None
        THEN [team |-> base @@ [distance |-> None, distance_km |-> None],
              cache |-> there.cache, calls |-> there.calls,
              warnings |-> Append(warn1, "no distance"), raised |-> NoError]
        ELSE IF home.location = None
        THEN [team |-> None, cache |-> home.cache, calls |-> home.calls,
              warnings |-> warn1, raised |-> "AttributeError"]
        ELSE LET d == distance(<<home.location.latitude, home.location.longitude>>,
                               <<there.location.latitude, there.location.longitude>>)
             IN [team |-> base @@ [distance |-> [metres |-> d],
                                   distance_km |-> [km |-> d \div 1000]],
                 cache |-> home.cache, calls |-> home.calls,
                 warnings |-> warn1, raised |-> NoError]

\* Mentor(name, rookie, free_times)
NewMentorObject(name, rookie, free_times) ==
    LET periods == [i \in 1..Len(free_times) |-> TimePeriodOf[free_times[i]]]
        bad == {i \in 1..Len(periods) : IsRaise(periods[i])}
    IN  IF bad # {}
        THEN [mentor |-> None,
              raised |-> periods[CHOOSE i \in bad : \A j \in bad : i <= j].raised]
        ELSE [mentor |-> [name |-> name, rookie |-> rookie, free_times |-> periods],
              raised |-> NoError]

----------------------------------------------------------------------------
(* Specification of a run of main: the teams are built, then the mentors,  *)
(* then the report calls the two searches.  An exception ends the run.     *)
(* The run starts without a '.cache' file.                                 *)

Init ==
    /\ my_postcode \in MyPostcodes
    /\ cache = [q \in {} |-> None]
    /\ calls = [q \in Postcodes |-> 0]
    /\ teams = <<>>
    /\ mentors = <<>>
    /\ result = Outcome("start", 0, <<>>, <<>>, <<>>, NoError)
    /\ FitIdle
    /\ ParseIdle

NewTeam(arranged, postcode, meeting_times) ==
    LET tla == Len(teams) + 1
        made == NewTeamObject(cache, calls, tla, my_postcode, arranged, postcode,
                              meeting_times)
    IN  /\ result.raised = NoError
        /\ result.op \notin Matching
        /\ mentors = <<>>
        /\ Len(teams) < MaxTeams
        /\ cache' = made.cache
        /\ calls' = made.calls
        /\ teams' = IF made.team = None THEN teams ELSE Append(teams, made.team)
        /\ result' = Outcome("Team", tla, <<>>, <<>>, made.warnings, made.raised)
        /\ UNCHANGED <<my_postcode, mentors, fit_vars, parse_vars>>

NewMentor(rookie, free_times) ==
    LET name == Len(mentors) + 1
        made == NewMentorObject(name, rookie, free_times)
    IN  /\ result.raised = NoError
        /\ result.op \notin Matching
        /\ Len(mentors) < MaxMentors
        /\ mentors' = IF made.mentor = None THEN mentors
                      ELSE Append(mentors, made.mentor)
        /\ result' = Outcome("Mentor", name, <<>>, <<>>, <<>>, made.raised)
        /\ UNCHANGED <<my_postcode, cache, calls, teams, fit_vars, parse_vars>>

FindSuitableMentors(i) ==
    LET r == find_suitable_mentors(teams[i], mentors) IN
    /\ result.raised = NoError
    /\ result' = Outcome("find_suitable_mentors", i, r.yielded, r.constructed,
                         <<>>, r.raised)
    /\ UNCHANGED <<my_postcode, cache, calls, teams, mentors, fit_vars, parse_vars>>

FindSuitableTeams(j) ==
    LET r == find_suitable_teams(mentors[j], teams) IN
    /\ result.raised = NoError
    /\ result' = Outcome("find_suitable_teams", j, r.yielded, r.constructed,
                         <<>>, r.raised)
    /\ UNCHANGED <<my_postcode, cache, calls, teams, mentors, fit_vars, parse_vars>>

Next ==
    \/ \E arranged \in BOOLEAN, postcode \in TeamPostcodes, meeting_times \in MeetingTimes :
           NewTeam(arranged, postcode, meeting_times)
    \/ \E rookie \in BOOLEAN, free_times \in FreeTimes : NewMentor(rookie, free_times)
    \/ \E i \in 1..Len(teams) : FindSuitableMentors(i)
    \/ \E j \in 1..Len(mentors) : FindSuitableTeams(j)

Spec == Init /\ [][Next]_vars

----------------------------------------------------------------------------
(* Properties of fits_in (checked under SpecFit) *)

WellFormed(p) == p.start_time < p.end_time

\* C1: for periods A and B on the same weekday, A.fits_in(B) is true if and
\* only if B.start <= A.start and A.end <= B.end (a TimePeriod carries no
\* travel buffer, so A's interval is its own start and end); in particular
\* a period with the same endpoints as B fits.
C1_FitsIffContained ==
    ( /\ fit_result # Unset
      /\ fit_self.day = fit_other.day
      /\ WellFormed(fit_self) /\ WellFormed(fit_other) )
    => ( fit_result.value <=>
           ( /\ fit_other.start_time <= fit_self.start_time
             /\ fit_self.end_time <= fit_other.end_time ) )

\* C7: for periods A and B on different weekdays A.fits_in(B) is false,
\* whatever their start and end times.
C7_WeekdayMismatch ==
    (fit_result # Unset /\ fit_self.day # fit_other.day)
    => fit_result.value = FALSE

\* fits_in was applied to periods on different weekdays whose times nest strictly
C7_Witness ==
    /\ fit_result # Unset
    /\ fit_self.day # fit_other.day
    /\ fit_other.start_time < fit_self.start_time
    /\ fit_self.end_time < fit_other.end_time
    /\ WellFormed(fit_self)

----------------------------------------------------------------------------
(* Properties of parsing and rendering (checked under SpecParse) *)

\* C8: round trip: a period built from valid text, rendered with str and
\* parsed again has the same weekday, start time and end time.
C8_RoundTrip ==
    p_again # Unset
    => ( /\ IsPeriod(p_again)
         /\ p_again.day = p_period.day
         /\ p_again.start_time = p_period.start_time
         /\ p_again.end_time = p_period.end_time )

\* The round trip was made for a one-letter weekday prefix shared by two
\* weekdays, with one-digit hour and minute
C8_Witness ==
    /\ p_again # Unset
    /\ Len(p_string) = 9
    /\ p_string[1] \in {"T", "S"}
    /\ p_string[2] = " "
    /\ p_period.start_time = 545

----------------------------------------------------------------------------
(* Properties of a run (checked under Spec) *)

\* Mentor j is among the objects the last search yielded
YieldedMentor(j) == \E k \in 1..Len(result.yielded) : result.yielded[k].mentor = j

\* Some meeting time of the team fits into some free time of the mentor
SomeFit(team, mentor) ==
    \E f \in 1..Len(mentor.free_times), m \in 1..Len(team.meeting_times) :
        fits_in(team.meeting_times[m], mentor.free_times[f])

\* Some meeting time fits into a free time with both journeys slower than
\* MAX_SPEED km/h over the team's distance
SomeFitSlowEnough(team, mentor) ==
    /\ team.distance # None
    /\ \E f \in 1..Len(mentor.free_times), m \in 1..Len(team.meeting_times) :
         LET free_time == mentor.free_times[f]
             meeting_time == team.meeting_times[m]
         IN  /\ fits_in(meeting_time, free_time)
             /\ team.distance_km.km * 60
                  < MAX_SPEED * (meeting_time.start_time - free_time.start_time)
             /\ team.distance_km.km * 60
                  < MAX_SPEED * (free_time.end_time - meeting_time.end_time)

\* C2 as claimed: for a team that is not arranged, find_suitable_mentors
\* yields a result for mentor m if and only if some meeting time of the
\* team fits into some free time of m; no other condition decides it.
\* (Stated for searches that ended without an exception.)
C2_SuitableIffSomeFit ==
    ( /\ result.op = "find_suitable_mentors"
      /\ ~ teams[result.who].arranged
      /\ result.raised = NoError )
    => \A j \in 1..Len(mentors) :
           YieldedMentor(j) <=> SomeFit(teams[result.who], mentors[j])

\* C2 as amended: for a team that is not arranged, find_suitable_mentors
\* yields a result for mentor m if and only if the team's distance is known
\* and some meeting time fits into some free time of m with both journey
\* speeds below MAX_SPEED.
C2_SuitableIffFitAndSlowEnough ==
    ( /\ result.op = "find_suitable_mentors"
      /\ ~ teams[result.who].arranged )
    => \A j \in 1..Len(mentors) :
           YieldedMentor(j) <=> SomeFitSlowEnough(teams[result.who], mentors[j])

\* A search that yielded one mentor and passed over another whose free time
\* the meeting fits into
C2_Witness ==
    /\ result.op = "find_suitable_mentors"
    /\ ~ teams[result.who].arranged
    /\ result.raised = NoError
    /\ \E j \in 1..Len(mentors) : YieldedMentor(j)
    /\ \E j \in 1..Len(mentors) :
           ~ YieldedMentor(j) /\ SomeFit(teams[result.who], mentors[j])

\* C3: rookie exclusion: if every mentor of the suitable set is a rookie, the
\* set reported for the team is empty.
C3_AllRookieSetIsEmpty ==
    ( /\ result.op = "find_suitable_mentors"
      /\ result.raised = NoError
      /\ \A k \in 1..Len(result.yielded) : mentors[result.yielded[k].mentor].rookie )
    => result.yielded = <<>>

\* C4: arranged exclusion: find_suitable_mentors yields no mentor for an
\* arranged team, and no find_suitable_teams result holds an arranged team.
C4_ArrangedExcluded ==
    /\ (result.op = "find_suitable_mentors" /\ teams[result.who].arranged)
       => (result.yielded = <<>> /\ result.raised = NoError)
    /\ result.op = "find_suitable_teams"
       => \A k \in 1..Len(result.yielded) : ~ teams[result.yielded[k].team].arranged

\* find_suitable_mentors was asked about an arranged team that a mentor is
\* suitable for
C4_Witness ==
    /\ result.op = "find_suitable_mentors"
    /\ teams[result.who].arranged
    /\ \E j \in 1..Len(mentors) : SomeFitSlowEnough(teams[result.who], mentors[j])

\* C5: the geocoding service is invoked at most once for each distinct
\* query, queries without a location included.
C5_GeocodedAtMostOnce == \A q \in Postcodes : calls[q] <= 1

\* C6: matching a team whose postcode has no location (distance None)
\* against any mentors completes without raising an error.
C6_NoDistanceIsNotFatal ==
    /\ (result.op = "find_suitable_mentors" /\ teams[result.who].distance = None)
       => result.raised = NoError
    /\ ( /\ result.op = "find_suitable_teams"
         /\ \E i \in 1..Len(teams) : teams[i].distance = None )
       => result.raised = NoError

\* C10: every SuitableMentor that is_suitable_for constructs has journey_there
\* and journey_back strictly positive, and no speed computation divides by zero.
C10_JourneysPositive ==
    /\ \A k \in 1..Len(result.constructed) :
           /\ result.constructed[k].journey_there > 0
           /\ result.constructed[k].journey_back > 0
    /\ result.raised # "ZeroDivisionError"

\* A search that constructed a SuitableMentor although the mentor also has a
\* free time starting and ending exactly with a meeting time
C10_Witness ==
    /\ result.op \in Matching
    /\ result.constructed # <<>>
    /\ \E i \in 1..Len(teams), j \in 1..Len(mentors) :
         \E f \in 1..Len(mentors[j].free_times), m \in 1..Len(teams[i].meeting_times) :
             /\ mentors[j].free_times[f].day = teams[i].meeting_times[m].day
             /\ mentors[j].free_times[f].start_time = teams[i].meeting_times[m].start_time
             /\ mentors[j].free_times[f].end_time = teams[i].meeting_times[m].end_time

====
